---- MODULE Spec2Model ----
(***************************************************************************)
(* Model of the SolarGIS scripts src/AlmostFineScipt.py (analytical solar  *)
(* model with terrain and shadow correction) and src/Script.py (GRASS      *)
(* r.sun variant).                                                         *)
(*                                                                         *)
(* Python floats are fixed-point integers: a real x is the integer         *)
(* x * Scale, truncated toward zero.  Angles in degrees, angles in radians,*)
(* factors and trigonometric values all use this unit.  Radiation is kept  *)
(* in whole Wh/m2/day, insolation in whole kWh/m2, areas in whole m2.      *)
(***************************************************************************)
EXTENDS Integers, Sequences, FiniteSets, TLC

\* ------------------------------------------------------------------------
\* Fixed-point arithmetic (Python float)
\* ------------------------------------------------------------------------

\* the float 1.0
Scale == 10000

\* magnitude at which products saturate; stands for floats too large to
\* matter, such as math.tan(math.radians(90)) = 1.633e16
Huge == 500000000

Abs(x) == IF x < 0 THEN -x ELSE x

Sign(x) == IF x < 0 THEN -1 ELSE IF x > 0 THEN 1 ELSE 0

Min2(a, b) == IF a <= b THEN a ELSE b

Max2(a, b) == IF a >= b THEN a ELSE b

\* floor(a * b / c) for a, b >= 0 and c > 0, without forming a * b
MulDiv(a, b, c) == (a \div c) * b + ((a % c) * b) \div c

\* the float product x * y, saturating at +-Huge
Mul(x, y) ==
    LET a  == Abs(x)
        b  == Abs(y)
        q  == a \div Scale
        r  == a % Scale
        q2 == b \div Scale
        r2 == b % Scale
        sg == Sign(x) * Sign(y)
    IN  IF a > Huge \/ b > Huge THEN sg * Huge
        ELSE IF q2 # 0 /\ q > (Huge \div Scale) \div q2 THEN sg * Huge
        ELSE sg * Min2(Huge, q * q2 * Scale + q * r2 + r * q2 + (r * r2) \div Scale)

\* the float quotient x / y for 0 < |y| < 2000.0, saturating at +-Huge; the
\* fraction is developed two decimal digits at a time
Div(x, y) ==
    LET a  == Abs(x)
        b  == Abs(y)
        sg == Sign(x) * Sign(y)
        r1 == (a % b) * 100
        r2 == (r1 % b) * 100
    IN  IF a \div b >= Huge \div Scale THEN sg * Huge
        ELSE sg * Min2(Huge, (a \div b) * Scale + (r1 \div b) * 100 + r2 \div b)

\* math.pi
PI == 31416

\* round(10000 * sin(d degrees)) for d = 0..90, at index d + 1
SinTable ==
    << 0, 175, 349, 523, 698, 872, 1045, 1219, 1392, 1564,
       1736, 1908, 2079, 2250, 2419, 2588, 2756, 2924, 3090, 3256,
       3420, 3584, 3746, 3907, 4067, 4226, 4384, 4540, 4695, 4848,
       5000, 5150, 5299, 5446, 5592, 5736, 5878, 6018, 6157, 6293,
       6428, 6561, 6691, 6820, 6947, 7071, 7193, 7314, 7431, 7547,
       7660, 7771, 7880, 7986, 8090, 8192, 8290, 8387, 8480, 8572,
       8660, 8746, 8829, 8910, 8988, 9063, 9135, 9205, 9272, 9336,
       9397, 9455, 9511, 9563, 9613, 9659, 9703, 9744, 9781, 9816,
       9848, 9877, 9903, 9925, 9945, 9962, 9976, 9986, 9994, 9998,
       10000 >>

\* sine of d degrees, 0 <= d <= 90 degrees, by linear interpolation
SinQuadrant(d) ==
    LET i == d \div Scale
        f == d % Scale
    IN  IF i >= 90 THEN SinTable[91]
        ELSE SinTable[i + 1] + ((SinTable[i + 2] - SinTable[i + 1]) * f) \div Scale

\* sine of d degrees, d >= 0
SinDegrees(d) ==
    LET m == d % (360 * Scale)
    IN  IF m <= 90 * Scale THEN SinQuadrant(m)
        ELSE IF m <= 180 * Scale THEN SinQuadrant(180 * Scale - m)
        ELSE IF m <= 270 * Scale THEN -SinQuadrant(m - 180 * Scale)
        ELSE -SinQuadrant(360 * Scale - m)

\* math.radians
radians(x) == Sign(x) * (MulDiv(Abs(x), PI, 180) \div Scale)

\* math.degrees of a non-negative angle
degrees(r) == MulDiv(r * 180, Scale, PI)

\* math.sin
sin(r) == Sign(r) * SinDegrees(degrees(Abs(r) % (2 * PI)))

\* math.cos
cos(r) == SinDegrees(degrees((Abs(r) + PI \div 2) % (2 * PI)))

\* math.tan: finite for every float, huge at odd multiples of pi/2
tan(r) == IF cos(r) = 0 THEN Sign(sin(r)) * Huge ELSE Div(sin(r), cos(r))

\* the angle in degrees, 0..90, whose sine is c, for 0 <= c <= 1.0
AsinQuadrant(c) ==
    IF c >= SinTable[91] THEN 90 * Scale
    ELSE LET i == CHOOSE k \in 1..90 : SinTable[k] <= c /\ c < SinTable[k + 1]
         IN  (i - 1) * Scale
             + ((c - SinTable[i]) * Scale) \div (SinTable[i + 1] - SinTable[i])

\* math.acos; its argument must lie in [-1.0, 1.0]
acos(c) ==
    IF c >= 0 THEN radians(90 * Scale - AsinQuadrant(c))
    ELSE radians(90 * Scale + AsinQuadrant(-c))

\* ------------------------------------------------------------------------
\* 1. SETTINGS (both scripts)
\* ------------------------------------------------------------------------

TARGET_LAT == 481547

PANEL_EFFICIENCY == 1800

PERFORMANCE_RATIO == 8500

LINKE_TURBIDITY == 30000

\* the shipped value of days_to_simulate
SAMPLE_DAYS == << 80, 172, 264, 355 >>

\* ------------------------------------------------------------------------
\* 4. SOLAR RADIATION CALCULATION (AlmostFineScipt.py)
\* ------------------------------------------------------------------------

\* x * f for a whole quantity x (Wh, kWh, m2) and a float factor f >= 0
Scaled(x, f) == Sign(x) * MulDiv(Abs(x), f, Scale)

\* max(lo, min(hi, x))
Clamp(lo, hi, x) == Max2(lo, Min2(hi, x))

\* 23.45 * sin(radians((360/365) * (day - 81)))
calculate_solar_declination(day) ==
    Mul(234500, sin(radians(Mul(Div(360 * Scale, 365 * Scale), (day - 81) * Scale))))

\* -tan(lat_rad) * tan(decl_rad), before the clamp
cos_omega_unclamped(latitude, declination) ==
    -Mul(tan(radians(latitude)), tan(radians(declination)))

\* calculate_daylight_hours with the clamp of cos_omega left out
calculate_daylight_hours_unclamped(latitude, declination) ==
    LET cos_omega == cos_omega_unclamped(latitude, declination)
    IN  IF cos_omega < -Scale \/ cos_omega > Scale
        THEN [arg |-> cos_omega, raised |-> TRUE, hours |-> 0]
        ELSE [arg |-> cos_omega, raised |-> FALSE,
              hours |-> Div(2 * acos(cos_omega) * 12, PI)]

\* calculate_daylight_hours: arg is what math.acos receives, raised is its
\* ValueError (math domain error), hours the value returned otherwise
calculate_daylight_hours(latitude, declination) ==
    LET cos_omega == Clamp(-Scale, Scale, cos_omega_unclamped(latitude, declination))
    IN  IF cos_omega < -Scale \/ cos_omega > Scale
        THEN [arg |-> cos_omega, raised |-> TRUE, hours |-> 0]
        ELSE [arg |-> cos_omega, raised |-> FALSE,
              hours |-> Div(2 * acos(cos_omega) * 12, PI)]

solar_constant == 1367

\* calculate_extraterrestrial_radiation: H0 in whole Wh/m2/day.  The float
\* expression (24*3600/pi) * solar_constant * dr * (...) / 3600 is evaluated
\* as 24 * solar_constant * dr * (...) / pi.
calculate_extraterrestrial_radiation(day, latitude, declination) ==
    LET dr        == Scale + Mul(330, cos(radians(Div(360 * day * Scale, 365 * Scale))))
        lat_rad   == radians(latitude)
        decl_rad  == radians(declination)
        cos_omega == Clamp(-Scale, Scale, cos_omega_unclamped(latitude, declination))
    IN  IF cos_omega < -Scale \/ cos_omega > Scale
        THEN [arg |-> cos_omega, raised |-> TRUE, H0 |-> 0]
        ELSE LET omega_s == acos(cos_omega)
                 geom    == Mul(Mul(omega_s, sin(lat_rad)), sin(decl_rad))
                            + Mul(Mul(cos(lat_rad), cos(decl_rad)), sin(omega_s))
             IN  [arg |-> cos_omega, raised |-> FALSE,
                  H0 |-> Sign(geom)
                         * MulDiv(MulDiv(24 * solar_constant, dr, Scale), Abs(geom), PI)]

\* (1 + aspect_correction * 0.1 * sin(slope_rad)) * slope_correction, the
\* terrain factor before its clamp
terrain_factor_unclamped(slope_deg, aspect_deg, latitude) ==
    LET slope_rad         == radians(slope_deg)
        aspect_rad        == radians(aspect_deg)
        aspect_correction == cos(aspect_rad - radians(180 * Scale))
        optimal_slope     == Abs(latitude)
        slope_diff        == Abs(slope_deg - optimal_slope)
        slope_correction  == Scale + Mul(1500, cos(radians(slope_diff))) - 1500
    IN  Mul(Scale + Mul(Mul(aspect_correction, 1000), sin(slope_rad)), slope_correction)

\* calculate_terrain_correction with max and min exchanged
calculate_terrain_correction_swapped(slope_deg, aspect_deg, latitude) ==
    Min2(5000, Max2(13000, terrain_factor_unclamped(slope_deg, aspect_deg, latitude)))

\* calculate_terrain_correction: max(0.5, min(1.3, terrain_factor))
calculate_terrain_correction(slope_deg, aspect_deg, latitude) ==
    Clamp(5000, 13000, terrain_factor_unclamped(slope_deg, aspect_deg, latitude))

\* calculate_daily_radiation: global radiation in whole Wh/m2/day, or the
\* ValueError of a solar-geometry function
calculate_daily_radiation(day, latitude, slope_deg, aspect_deg, shadow, linke_turbidity) ==
    LET declination    == calculate_solar_declination(day)
        daylight       == calculate_daylight_hours(latitude, declination)
        ext            == calculate_extraterrestrial_radiation(day, latitude, declination)
        linke_factor   == Div(Scale, Scale + Mul(1000, linke_turbidity - 3 * Scale))
        horizontal     == Scaled(Scaled(ext.H0, 7500), linke_factor)
        terrain_factor == calculate_terrain_correction(slope_deg, aspect_deg, latitude)
    IN  [raised |-> daylight.raised \/ ext.raised,
         global_radiation |-> Scaled(Scaled(horizontal, terrain_factor), shadow)]

\* ------------------------------------------------------------------------
\* State of one run of a script
\* ------------------------------------------------------------------------

VARIABLES
    script,                       \* which script runs
    pc,                           \* position in the script
    days_to_simulate,             \* the day-of-year samples of the settings
    feature_area,                 \* feature_geom.area(), whole m2
    roof_slope_deg,
    roof_aspect_deg,
    hillshade_mean,
    shadow_factor,
    provenance,                   \* how each roof descriptor was obtained
    console,                      \* the warnings, errors and result banner printed
    exception,                    \* the uncaught exception that ended the run
    day_index,                    \* position of the day loop in days_to_simulate
    evaluated_days,               \* days whose radiation was added to the sum
    failed_days,                  \* days whose r.sun call raised (Script.py)
    annual_insolation_sum_wh_m2,
    average_daily_insolation_wh_m2,
    annual_insolation_kwh_m2,
    building_area_m2,
    potential_power_kwh_year,
    call                          \* a single call of a solar-geometry function

vars == << script, pc, days_to_simulate, feature_area, roof_slope_deg,
           roof_aspect_deg, hillshade_mean, shadow_factor, provenance, console,
           exception, day_index, evaluated_days, failed_days,
           annual_insolation_sum_wh_m2, average_daily_insolation_wh_m2,
           annual_insolation_kwh_m2, building_area_m2, potential_power_kwh_year,
           call >>

Scripts == { "AlmostFineScipt", "Script" }

\* the messages the scripts print that the properties refer to
WarnTerrain  == "Warning: Slope or aspect files not found, using default values"

WarnShadow   == "Warning: Hillshade file not created, using default shadow factor"

WarnArea     == "Warning: Area calculation issue"

ErrorRSun    == "Error in GRASS r.sun"

ErrorFailed  == "ERROR: Failed to calculate the total insolation"

Completed    == "SOLAR POTENTIAL CALCULATION COMPLETED"

\* the settings a run can be configured with: the shipped sample days or a
\* shorter list, down to none
DaySettings == { SubSeq(SAMPLE_DAYS, 1, n) : n \in 0..Len(SAMPLE_DAYS) }

\* footprint areas feature_geom.area() can yield, whole m2
FeatureAreas == { -25, 0, 120, 10000001 }

\* areas of the feature of the reprojected layer, whole m2
ProjectedAreas == { 0, 150 }

\* a null zonal mean (None)
Null == -1000000000

\* zonal means of the slope raster, degrees
SlopeMeans == { Null, 0, 30 * Scale, 90 * Scale }

\* zonal means of the aspect raster, degrees
AspectMeans == { Null, 0, 90 * Scale, 180 * Scale, 270 * Scale }

\* zonal means of the hillshade raster; a raster found at the hillshade
\* path need not be a byte raster, so means beyond 0..255 occur
HillshadeMeans == { Null, -51 * Scale, 0, 51 * Scale, 255 * Scale, 306 * Scale }

\* zonal means of the r.sun global radiation raster, whole Wh/m2
GlobMeans == { 0, 1500, 3000 }

NoCall == [fn |-> "none", latitude |-> 0, declination |-> 0, day |-> 0,
           slope_deg |-> 0, aspect_deg |-> 0,
           unclamped |-> 0, arg |-> 0, raised |-> FALSE, value |-> 0]

Unset == [how |-> "unset", warnings_before |-> 0]

Init ==
    /\ script \in Scripts
    /\ pc = IF script = "AlmostFineScipt" THEN "terrain" ELSE "loop"
    /\ days_to_simulate \in DaySettings
    /\ feature_area \in FeatureAreas
    /\ roof_slope_deg = 0
    /\ roof_aspect_deg = 0
    /\ hillshade_mean = 0
    /\ shadow_factor = 0
    /\ provenance = [f \in {"roof_slope_deg", "roof_aspect_deg", "shadow_factor"} |-> Unset]
    /\ console = << >>
    /\ exception = "none"
    /\ day_index = 1
    /\ evaluated_days = << >>
    /\ failed_days = {}
    /\ annual_insolation_sum_wh_m2 = 0
    /\ average_daily_insolation_wh_m2 = 0
    /\ annual_insolation_kwh_m2 = 0
    /\ building_area_m2 = 0
    /\ potential_power_kwh_year = 0
    /\ call = NoCall

\* print with the message left out
print_nothing(out, message) == out

\* print(message), on the console out
print(out, message) == Append(out, message)

IsWarning(m) == m \in { WarnTerrain, WarnShadow, WarnArea }

\* the warnings printed so far
Warnings == SelectSeq(console, IsWarning)

Printed(m) == \E i \in 1..Len(console) : console[i] = m

\* a descriptor obtained now, after the warnings printed so far
Obtained(how) == [how |-> how, warnings_before |-> Len(Warnings)]

\* an uncaught exception ends the run where it is raised
Raise(e) ==
    /\ exception' = e
    /\ pc' = "done"

\* ------------------------------------------------------------------------
\* 3.3 TERRAIN ANALYSIS FOR BUILDING ROOF (AlmostFineScipt.py)
\* ------------------------------------------------------------------------

\* x if x is not None else default
OrDefault(x, default) == IF x = Null THEN default ELSE x

ExtractSlopeAspect ==
    /\ script = "AlmostFineScipt"
    /\ pc = "terrain"
    /\ UNCHANGED << script, days_to_simulate, feature_area, hillshade_mean,
                    shadow_factor, day_index, evaluated_days, failed_days,
                    annual_insolation_sum_wh_m2, average_daily_insolation_wh_m2,
                    annual_insolation_kwh_m2, building_area_m2,
                    potential_power_kwh_year, call >>
    /\ \E slope_exists \in BOOLEAN, aspect_exists \in BOOLEAN :
        IF ~slope_exists \/ ~aspect_exists
        THEN \* the slope or the aspect file is missing
             /\ console' = print(console, WarnTerrain)
             /\ roof_slope_deg' = 0
             /\ roof_aspect_deg' = 180 * Scale
             /\ provenance' = [provenance EXCEPT
                    !["roof_slope_deg"] =
                        [how |-> "file_missing", warnings_before |-> Len(Warnings) + 1],
                    !["roof_aspect_deg"] =
                        [how |-> "file_missing", warnings_before |-> Len(Warnings) + 1]]
             /\ pc' = "shadow"
             /\ UNCHANGED exception
        ELSE \/ \* a zonal statistics run raises
                /\ Raise("QgsProcessingException")
                /\ UNCHANGED << roof_slope_deg, roof_aspect_deg, provenance, console >>
             \/ \* the zonal layer has no feature: next() raises
                /\ Raise("StopIteration")
                /\ provenance' = [provenance EXCEPT
                       !["roof_slope_deg"] = Obtained("no_feature"),
                       !["roof_aspect_deg"] = Obtained("no_feature")]
                /\ UNCHANGED << roof_slope_deg, roof_aspect_deg, console >>
             \/ \* the feature carries the two means, either of them possibly null
                \E slope_mean \in SlopeMeans, aspect_mean \in AspectMeans :
                    /\ roof_slope_deg' = OrDefault(slope_mean, 0)
                    /\ roof_aspect_deg' = OrDefault(aspect_mean, 180 * Scale)
                    /\ provenance' = [provenance EXCEPT
                           !["roof_slope_deg"] =
                               Obtained(IF slope_mean = Null THEN "null" ELSE "mean"),
                           !["roof_aspect_deg"] =
                               Obtained(IF aspect_mean = Null THEN "null" ELSE "mean")]
                    /\ pc' = "shadow"
                    /\ UNCHANGED << console, exception >>

\* ------------------------------------------------------------------------
\* 3.4 SHADOW ANALYSIS (HILLSHADE) (AlmostFineScipt.py)
\* ------------------------------------------------------------------------

\* 0.5 + (hillshade_mean / 255.0) * 0.5
shadow_from_hillshade(h) == 5000 + Mul(Div(h, 255 * Scale), 5000)

ExtractShadow ==
    /\ script = "AlmostFineScipt"
    /\ pc = "shadow"
    /\ UNCHANGED << script, days_to_simulate, feature_area, roof_slope_deg,
                    roof_aspect_deg, day_index, evaluated_days, failed_days,
                    annual_insolation_sum_wh_m2, average_daily_insolation_wh_m2,
                    annual_insolation_kwh_m2, building_area_m2,
                    potential_power_kwh_year, call >>
    /\ \/ \* gdal:hillshade or the zonal statistics run raises
          /\ Raise("QgsProcessingException")
          /\ UNCHANGED << hillshade_mean, shadow_factor, provenance, console >>
       \/ \* the hillshade file is missing
          /\ console' = print(console, WarnShadow)
          /\ shadow_factor' = Scale
          /\ provenance' = [provenance EXCEPT !["shadow_factor"] =
                 [how |-> "file_missing", warnings_before |-> Len(Warnings) + 1]]
          /\ pc' = "loop"
          /\ UNCHANGED << hillshade_mean, exception >>
       \/ \* the zonal layer has no feature: next() raises
          /\ Raise("StopIteration")
          /\ provenance' = [provenance EXCEPT !["shadow_factor"] = Obtained("no_feature")]
          /\ UNCHANGED << hillshade_mean, shadow_factor, console >>
       \/ \* the feature carries the mean, possibly null
          \E hs_mean \in HillshadeMeans :
              /\ hillshade_mean' = OrDefault(hs_mean, 255 * Scale)
              /\ shadow_factor' = shadow_from_hillshade(hillshade_mean')
              /\ provenance' = [provenance EXCEPT !["shadow_factor"] =
                     Obtained(IF hs_mean = Null THEN "null" ELSE "mean")]
              /\ pc' = "loop"
              /\ UNCHANGED << console, exception >>

\* ------------------------------------------------------------------------
\* 5. MAIN CALCULATION LOOP (AlmostFineScipt.py)
\* ------------------------------------------------------------------------

SimulateDay ==
    /\ script = "AlmostFineScipt"
    /\ pc = "loop"
    /\ day_index <= Len(days_to_simulate)
    /\ UNCHANGED << script, days_to_simulate, feature_area, roof_slope_deg,
                    roof_aspect_deg, hillshade_mean, shadow_factor, provenance,
                    console, failed_days, average_daily_insolation_wh_m2,
                    annual_insolation_kwh_m2, building_area_m2,
                    potential_power_kwh_year, call >>
    /\ LET day    == days_to_simulate[day_index]
           result == calculate_daily_radiation(day, TARGET_LAT, roof_slope_deg,
                         roof_aspect_deg, shadow_factor, LINKE_TURBIDITY)
       IN  IF result.raised
           THEN /\ Raise("ValueError")
                /\ UNCHANGED << day_index, evaluated_days, annual_insolation_sum_wh_m2 >>
           ELSE /\ annual_insolation_sum_wh_m2' =
                       annual_insolation_sum_wh_m2 + result.global_radiation
                /\ evaluated_days' = Append(evaluated_days, day)
                /\ day_index' = day_index + 1
                /\ UNCHANGED << pc, exception >>

\* ------------------------------------------------------------------------
\* 4. CALCULATION IN GRASS: the day loop of Script.py
\* ------------------------------------------------------------------------

RSunDay ==
    /\ script = "Script"
    /\ pc = "loop"
    /\ day_index <= Len(days_to_simulate)
    /\ UNCHANGED << script, days_to_simulate, feature_area, roof_slope_deg,
                    roof_aspect_deg, hillshade_mean, shadow_factor, provenance,
                    average_daily_insolation_wh_m2, annual_insolation_kwh_m2,
                    building_area_m2, potential_power_kwh_year, call >>
    /\ LET day == days_to_simulate[day_index]
       IN  \/ \* rsun_pygrass raises: the error is printed and the day skipped
              /\ console' = print(console, ErrorRSun)
              /\ failed_days' = failed_days \cup {day}
              /\ day_index' = day_index + 1
              /\ UNCHANGED << pc, exception, evaluated_days,
                              annual_insolation_sum_wh_m2 >>
           \/ \* a zonal statistics run raises, outside the try
              /\ Raise("QgsProcessingException")
              /\ UNCHANGED << console, failed_days, day_index, evaluated_days,
                              annual_insolation_sum_wh_m2 >>
           \/ \* the zonal layer has no feature: next() raises
              /\ Raise("StopIteration")
              /\ UNCHANGED << console, failed_days, day_index, evaluated_days,
                              annual_insolation_sum_wh_m2 >>
           \/ \* the global mean, 0 when it is missing or null
              \E glob_mean \in GlobMeans :
                  /\ annual_insolation_sum_wh_m2' = annual_insolation_sum_wh_m2 + glob_mean
                  /\ evaluated_days' = Append(evaluated_days, day)
                  /\ day_index' = day_index + 1
                  /\ UNCHANGED << pc, exception, console, failed_days >>

\* ------------------------------------------------------------------------
\* 6. RESULTS CALCULATION AND OUTPUT (both scripts)
\* ------------------------------------------------------------------------

\* the product of two whole quantities, saturating at +-Huge
Product(x, y) ==
    IF y # 0 /\ Abs(x) > Huge \div Abs(y) THEN Sign(x) * Sign(y) * Huge ELSE x * y

\* area * annual_insolation_kwh_m2 * PANEL_EFFICIENCY * PERFORMANCE_RATIO
potential_power(area, annual_kwh_m2) ==
    Scaled(Scaled(Product(area, annual_kwh_m2), PANEL_EFFICIENCY), PERFORMANCE_RATIO)

\* the area test of AlmostFineScipt.py: less than 1 m2 or more than 10 km2
area_unrealistic(area) == area < 1 \/ area > 10000000

\* the test with >= in place of >
insolation_calculated_or_zero(sum_wh_m2) == sum_wh_m2 >= 0

\* if annual_insolation_sum_wh_m2 > 0
insolation_calculated(sum_wh_m2) == sum_wh_m2 > 0

Results ==
    /\ pc = "loop"
    /\ day_index > Len(days_to_simulate)
    /\ UNCHANGED << script, days_to_simulate, feature_area, roof_slope_deg,
                    roof_aspect_deg, hillshade_mean, shadow_factor, provenance,
                    day_index, evaluated_days, failed_days,
                    annual_insolation_sum_wh_m2, call >>
    /\ IF insolation_calculated(annual_insolation_sum_wh_m2)
       THEN IF Len(days_to_simulate) = 0
            THEN /\ Raise("ZeroDivisionError")
                 /\ UNCHANGED << console, average_daily_insolation_wh_m2,
                                 annual_insolation_kwh_m2, building_area_m2,
                                 potential_power_kwh_year >>
            ELSE /\ average_daily_insolation_wh_m2' =
                        annual_insolation_sum_wh_m2 \div Len(days_to_simulate)
                 /\ annual_insolation_kwh_m2' =
                        (average_daily_insolation_wh_m2' * 365) \div 1000
                 /\ IF script = "AlmostFineScipt" /\ area_unrealistic(feature_area)
                    THEN \E projected \in ProjectedAreas :
                            /\ building_area_m2' = projected
                            /\ console' = print(print(console, WarnArea), Completed)
                    ELSE /\ building_area_m2' = feature_area
                         /\ console' = print(console, Completed)
                 /\ potential_power_kwh_year' =
                        potential_power(building_area_m2', annual_insolation_kwh_m2')
                 /\ pc' = "done"
                 /\ UNCHANGED exception
       ELSE /\ console' = print(console, ErrorFailed)
            /\ pc' = "done"
            /\ UNCHANGED << exception, average_daily_insolation_wh_m2,
                            annual_insolation_kwh_m2, building_area_m2,
                            potential_power_kwh_year >>

Next ==
    \/ ExtractSlopeAspect
    \/ ExtractShadow
    \/ SimulateDay
    \/ RSunDay
    \/ Results

Spec == Init /\ [][Next]_vars

\* ------------------------------------------------------------------------
\* The solar-geometry functions called on their own, over their domains
\* ------------------------------------------------------------------------

\* number of steps the quarter circle is divided into
AngleSteps == 6

\* slopes 0..90 degrees
Slopes == { (90 * Scale * i) \div AngleSteps : i \in 0..AngleSteps }

\* aspects in [0, 360) degrees
Aspects == { (360 * Scale * i) \div (4 * AngleSteps) : i \in 0..(4 * AngleSteps - 1) }

\* latitudes -90..90 degrees
Latitudes ==
    { (90 * Scale * i) \div AngleSteps - 90 * Scale : i \in 0..(2 * AngleSteps) }

\* declinations: those of the sample days, and the whole range of angles
Declinations ==
    Latitudes \cup { calculate_solar_declination(SAMPLE_DAYS[i]) : i \in 1..Len(SAMPLE_DAYS) }

FnInit ==
    /\ script = "AlmostFineScipt"
    /\ pc = "idle"
    /\ days_to_simulate = SAMPLE_DAYS
    /\ feature_area = 0
    /\ roof_slope_deg = 0
    /\ roof_aspect_deg = 0
    /\ hillshade_mean = 0
    /\ shadow_factor = 0
    /\ provenance = [f \in {"roof_slope_deg", "roof_aspect_deg", "shadow_factor"} |-> Unset]
    /\ console = << >>
    /\ exception = "none"
    /\ day_index = 1
    /\ evaluated_days = << >>
    /\ failed_days = {}
    /\ annual_insolation_sum_wh_m2 = 0
    /\ average_daily_insolation_wh_m2 = 0
    /\ annual_insolation_kwh_m2 = 0
    /\ building_area_m2 = 0
    /\ potential_power_kwh_year = 0
    /\ call = NoCall

pipeline == << script, pc, days_to_simulate, feature_area, roof_slope_deg,
               roof_aspect_deg, hillshade_mean, shadow_factor, provenance, console,
               exception, day_index, evaluated_days, failed_days,
               annual_insolation_sum_wh_m2, average_daily_insolation_wh_m2,
               annual_insolation_kwh_m2, building_area_m2, potential_power_kwh_year >>

CallTerrainCorrection ==
    /\ pc = "idle"
    /\ call.fn = "none"
    /\ \E slope_deg \in Slopes, aspect_deg \in Aspects, latitude \in Latitudes :
        call' = [NoCall EXCEPT
                    !.fn = "calculate_terrain_correction",
                    !.slope_deg = slope_deg,
                    !.aspect_deg = aspect_deg,
                    !.latitude = latitude,
                    !.unclamped = terrain_factor_unclamped(slope_deg, aspect_deg, latitude),
                    !.value = calculate_terrain_correction(slope_deg, aspect_deg, latitude)]
    /\ UNCHANGED pipeline

CallDaylightHours ==
    /\ pc = "idle"
    /\ call.fn = "none"
    /\ \E latitude \in Latitudes, declination \in Declinations :
        LET r == calculate_daylight_hours(latitude, declination)
        IN  call' = [NoCall EXCEPT
                        !.fn = "calculate_daylight_hours",
                        !.latitude = latitude,
                        !.declination = declination,
                        !.unclamped = cos_omega_unclamped(latitude, declination),
                        !.arg = r.arg,
                        !.raised = r.raised,
                        !.value = r.hours]
    /\ UNCHANGED pipeline

CallExtraterrestrialRadiation ==
    /\ pc = "idle"
    /\ call.fn = "none"
    /\ \E i \in 1..Len(SAMPLE_DAYS), latitude \in Latitudes, declination \in Declinations :
        LET r == calculate_extraterrestrial_radiation(SAMPLE_DAYS[i], latitude, declination)
        IN  call' = [NoCall EXCEPT
                        !.fn = "calculate_extraterrestrial_radiation",
                        !.day = SAMPLE_DAYS[i],
                        !.latitude = latitude,
                        !.declination = declination,
                        !.unclamped = cos_omega_unclamped(latitude, declination),
                        !.arg = r.arg,
                        !.raised = r.raised,
                        !.value = r.H0]
    /\ UNCHANGED pipeline

\* the call is over; the next one starts afresh
Return ==
    /\ pc = "idle"
    /\ call.fn # "none"
    /\ call' = NoCall
    /\ UNCHANGED pipeline

FnNext ==
    \/ CallTerrainCorrection
    \/ CallDaylightHours
    \/ CallExtraterrestrialRadiation
    \/ Return

FnSpec == FnInit /\ [][FnNext]_vars

\* ------------------------------------------------------------------------
\* Properties
\* ------------------------------------------------------------------------

RoofFields == { "roof_slope_deg", "roof_aspect_deg", "shadow_factor" }

\* the value of a roof descriptor
RoofValue(f) ==
    IF f = "roof_slope_deg" THEN roof_slope_deg
    ELSE IF f = "roof_aspect_deg" THEN roof_aspect_deg
    ELSE shadow_factor

\* the documented default of a roof descriptor
RoofDefault(f) ==
    IF f = "roof_slope_deg" THEN 0
    ELSE IF f = "roof_aspect_deg" THEN 180 * Scale
    ELSE Scale

\* the warnings of the terrain and shadow summarizer
SummarizerWarnings == SelectSeq(console, LAMBDA m : m \in { WarnTerrain, WarnShadow })

\* the slope, aspect and hillshade rasters were all unavailable
AllRastersMissing == \A f \in RoofFields : provenance[f].how = "file_missing"

\* the position of a sample day in the settings
DayPosition(d) == CHOOSE k \in 1..Len(days_to_simulate) : days_to_simulate[k] = d

\* the run got past the summarizer, to the day loop (Script.py has none)
SummarizerDone ==
    \/ script = "Script"
    \/ provenance["shadow_factor"].how \in { "file_missing", "null", "mean" }

\* a yield estimate (annual insolation, area, potential yield) was produced
YieldProduced == Printed(Completed)

\* C1: when the day sample set is empty, a run that gets to the annual
\* aggregation ends with an explicit NoSamplesError: no division by zero,
\* no accumulation, and no other outcome such as the generic error message.
C1_EmptyDaysRaiseNoSamplesError ==
    (pc = "done" /\ days_to_simulate = << >> /\ SummarizerDone)
        => /\ exception = "NoSamplesError"
           /\ ~Printed(ErrorFailed)
           /\ evaluated_days = << >>

\* C2 as claimed: when the slope, aspect and hillshade rasters are all
\* unavailable, the roof descriptor is the default (0, 180, 1.0) and exactly
\* one warning was emitted for the whole fallback.
C2_AllMissingOneWarning ==
    AllRastersMissing
        => /\ \A f \in RoofFields : RoofValue(f) = RoofDefault(f)
           /\ Len(SummarizerWarnings) = 1

\* C2 as amended: when the slope, aspect and hillshade rasters are all
\* unavailable, the roof descriptor is the default (0, 180, 1.0) and exactly
\* two warnings were emitted, one for the slope/aspect group and then one
\* for the hillshade.
C2_AllMissingTwoWarnings ==
    AllRastersMissing
        => /\ \A f \in RoofFields : RoofValue(f) = RoofDefault(f)
           /\ SummarizerWarnings = << WarnTerrain, WarnShadow >>

\* C2 witness: all three rasters were missing and the summarizer is through
C2_Witness == AllRastersMissing /\ pc = "loop"

\* C3: a zonal query for slope, aspect or hillshade that yields no feature
\* or a null mean raises no exception: the descriptor takes its default and
\* the run goes on to the yield computation.
C3_EmptyZonalResultTakesDefault ==
    \A f \in RoofFields :
        provenance[f].how \in { "no_feature", "null" }
            => /\ exception = "none"
               /\ RoofValue(f) = RoofDefault(f)
               /\ pc \in { "shadow", "loop", "done" }

\* C4: once the radiation raster computation has failed for a sampled day,
\* no yield estimate is produced in that run, and no later day is evaluated
\* after the failed one was skipped.
C4_RasterFailureIsFatal ==
    failed_days # {}
        => /\ ~YieldProduced
           /\ \A d \in failed_days : \A i \in 1..Len(evaluated_days) :
                  DayPosition(evaluated_days[i]) < DayPosition(d)

\* C5: an annual insolation figure that is produced is the arithmetic mean
\* of the daily values accumulated (their sum divided by their number),
\* multiplied by 365 and divided by 1000.
C5_AnnualIsMeanOfAccumulated ==
    YieldProduced
        => /\ Len(evaluated_days) > 0
           /\ average_daily_insolation_wh_m2
                  = annual_insolation_sum_wh_m2 \div Max2(1, Len(evaluated_days))
           /\ annual_insolation_kwh_m2 = (average_daily_insolation_wh_m2 * 365) \div 1000

\* C6: every fallback of a roof descriptor to its default, for a missing
\* raster file or a null zonal mean, is preceded by a warning.
C6_FallbackPrecededByWarning ==
    \A f \in RoofFields :
        provenance[f].how \in { "file_missing", "null" }
            => provenance[f].warnings_before > 0

\* C7: the shadow factor the summarizer produces lies in [0.5, 1.0] for
\* every hillshade mean, below 0 and above 255 included; h = 0 gives 0.5 and
\* h = 255 gives 1.0.
C7_ShadowFactorClamped ==
    provenance["shadow_factor"].how \in { "file_missing", "null", "mean" }
        => /\ shadow_factor >= 5000
           /\ shadow_factor <= Scale
           /\ (provenance["shadow_factor"].how = "mean" /\ hillshade_mean = 0)
                  => shadow_factor = 5000
           /\ (provenance["shadow_factor"].how = "mean" /\ hillshade_mean = 255 * Scale)
                  => shadow_factor = Scale

\* C8: calculate_terrain_correction returns a value in [0.5, 1.3] for every
\* slope in [0, 90], aspect in [0, 360) and latitude in [-90, 90]: the
\* unclamped product itself when that lies in the range, 0.5 when the
\* product is below it and 1.3 when the product is above it.
C8_TerrainCorrectionClamped ==
    call.fn = "calculate_terrain_correction"
        => /\ call.value >= 5000
           /\ call.value <= 13000
           /\ (call.unclamped < 5000) => call.value = 5000
           /\ (call.unclamped > 13000) => call.value = 13000
           /\ (call.unclamped >= 5000 /\ call.unclamped <= 13000)
                  => call.value = call.unclamped

\* C8 witness: a roof facing south at the optimal slope gains radiation
C8_Witness ==
    /\ call.fn = "calculate_terrain_correction"
    /\ call.slope_deg = Abs(call.latitude)
    /\ call.aspect_deg = 180 * Scale
    /\ call.value > Scale

\* C9: an implausible footprint area (non-positive, or outside the sane
\* range) is warned about and may be replaced; the area multiplied into the
\* potential yield is the footprint area when that is plausible; every
\* non-positive area triggers the warning.
C9_ImplausibleAreaWarned ==
    YieldProduced
        => /\ area_unrealistic(feature_area) => Printed(WarnArea)
           /\ feature_area <= 0 => Printed(WarnArea)
           /\ ~area_unrealistic(feature_area) => building_area_m2 = feature_area
           /\ potential_power_kwh_year
                  = potential_power(building_area_m2, annual_insolation_kwh_m2)

\* C10: in calculate_daylight_hours and calculate_extraterrestrial_radiation
\* the value passed to the inverse cosine lies in [-1, 1] for every latitude
\* in [-90, 90] and every declination, so neither raises a math domain
\* error; in the polar cases the clamp to -1 gives 24 hours of daylight and
\* the clamp to 1 gives 0 hours.
C10_AcosArgumentInDomain ==
    call.fn \in { "calculate_daylight_hours", "calculate_extraterrestrial_radiation" }
        => /\ call.arg >= -Scale
           /\ call.arg <= Scale
           /\ ~call.raised
           /\ (call.fn = "calculate_daylight_hours" /\ call.unclamped <= -Scale)
                  => call.value = 24 * Scale
           /\ (call.fn = "calculate_daylight_hours" /\ call.unclamped >= Scale)
                  => call.value = 0

\* C10 witness: polar day, where -tan(lat) * tan(decl) is far below -1
C10_Witness ==
    /\ call.fn = "calculate_daylight_hours"
    /\ call.latitude = 90 * Scale
    /\ call.unclamped < -Scale
    /\ call.value = 24 * Scale

\* C11: after the day loop has finished, a yield estimate is produced if
\* and only if the accumulated daily insolation sum is strictly greater than
\* zero; otherwise (no days, every day contributing 0, or every day skipped)
\* the run ends with the 'Failed to calculate the total insolation' message,
\* with no area and no yield computed and no division by the number of days.
C11_YieldIffPositiveSum ==
    /\ exception # "ZeroDivisionError"
    /\ YieldProduced => annual_insolation_sum_wh_m2 > 0
    /\ (pc = "done" /\ exception = "none")
           => /\ YieldProduced <=> annual_insolation_sum_wh_m2 > 0
              /\ Printed(ErrorFailed) <=> annual_insolation_sum_wh_m2 <= 0
              /\ annual_insolation_sum_wh_m2 <= 0
                     => /\ average_daily_insolation_wh_m2 = 0
                        /\ annual_insolation_kwh_m2 = 0
                        /\ building_area_m2 = 0
                        /\ potential_power_kwh_year = 0
                        /\ ~Printed(WarnArea)

\* C11 witness: every day was evaluated and contributed 0, or was skipped,
\* and the run ended with the error message
C11_Witness ==
    /\ pc = "done"
    /\ days_to_simulate # << >>
    /\ failed_days # {}
    /\ evaluated_days # << >>
    /\ annual_insolation_sum_wh_m2 = 0
    /\ Printed(ErrorFailed)

====
